---------------------------- MODULE Spec2Model ----------------------------
(***************************************************************************)
(* Model of src/HessianProbabilityGrid.py: the class Data, a Pearson III   *)
(* frequency estimator.  One Data object is modelled: its instance         *)
(* attributes are the variables, each of its methods is one action.        *)
(*                                                                         *)
(* Floating-point numbers are modelled by records [k, num, den]:           *)
(*   k = "absent"  the attribute has not been assigned yet                 *)
(*   k = "fin"     the rational num/den (den > 0, lowest terms)            *)
(*   k = "surd"    sign(num) * sqrt(|num| / den), an irrational square root*)
(*   k = "real"    a finite number whose value is not modelled (a result   *)
(*                 of scipy's pearson3.ppf / pearson3.cdf)                 *)
(*   k = "inf"     +infinity (num = 1) or -infinity (num = -1)             *)
(*   k = "nan"     not-a-number                                            *)
(* Arithmetic is exact; rounding of IEEE doubles is not modelled.          *)
(***************************************************************************)
EXTENDS Integers, Sequences, FiniteSets, TLC

VARIABLES arr, n, ax,
          expectation, modulusRatio, coeffOfVar, coeffOfSkew,
          sorted, empiProb, probLimLeft, probLimRight,
          fitEX, fitCV, fitCS,
          lastOp, lastResult, warned, ret, empiDone

vars == <<arr, n, ax, expectation, modulusRatio, coeffOfVar, coeffOfSkew,
          sorted, empiProb, probLimLeft, probLimRight, fitEX, fitCV, fitCS,
          lastOp, lastResult, warned, ret, empiDone>>

\* ------------------------------------------------------------------ bounds
\* longest sample of the main specification
MaxN == 3
\* the samples of the series specification: every sequence of at most
\* MaxSeriesN values of 1..MaxSeriesVal, and the constant samples of at most
\* MaxAxisN values
MaxSeriesN == 3
MaxSeriesVal == 3
MaxAxisN == 1000

\* ------------------------------------------------------- float arithmetic
Absent == [k |-> "absent", num |-> 0, den |-> 1]
NaN == [k |-> "nan", num |-> 0, den |-> 1]
Real == [k |-> "real", num |-> 0, den |-> 1]

Inf(sign) == [k |-> "inf", num |-> sign, den |-> 1]

Abs(x) == IF x < 0 THEN -x ELSE x

Sign(x) == IF x < 0 THEN -1 ELSE IF x > 0 THEN 1 ELSE 0

RECURSIVE GCD(_, _)
GCD(a, b) == IF b = 0 THEN a ELSE GCD(b, a % b)

\* the rational a/b, b # 0, in lowest terms with a positive denominator
Fin(a, b) ==
    LET g == GCD(Abs(a), Abs(b))
    IN  [k |-> "fin", num |-> Sign(b) * (a \div g), den |-> Abs(b) \div g]

\* a / b as numpy divides float64 scalars: no exception, inf or nan for b = 0
FDiv(a, b) ==
    IF b # 0 THEN Fin(a, b)
    ELSE IF a = 0 THEN NaN ELSE Inf(Sign(a))

\* sign(s) * sqrt(p / q) for p >= 0, q > 0
Surd(s, p, q) ==
    IF p = 0 \/ s = 0 THEN Fin(0, 1)
    ELSE LET g == GCD(p, q)
         IN  [k |-> "surd", num |-> Sign(s) * (p \div g), den |-> q \div g]

Has(x) == x.k # "absent"

IsFinite(x) == x.k \in {"fin", "surd", "real"}

\* x < y for two rationals
FLess(x, y) == x.num * y.den < y.num * x.den

\* x - y for two rationals
FSub(x, y) == Fin(x.num * y.den - y.num * x.den, x.den * y.den)

\* x * r for a float x and an integer r
FMulInt(x, r) ==
    CASE x.k = "fin" -> Fin(x.num * r, x.den)
      [] x.k = "inf" -> IF r = 0 THEN NaN ELSE Inf(x.num * Sign(r))
      [] OTHER -> x

RECURSIVE SumSeq(_)
SumSeq(s) == IF s = <<>> THEN 0 ELSE Head(s) + SumSeq(Tail(s))

RECURSIVE Pow(_, _)
Pow(b, e) == IF e = 0 THEN 1 ELSE b * Pow(b, e - 1)


\* ------------------------------------------------- statParams: statistics
\* n * arr[i] - sum(arr): modulusRatio[i] - 1 = Dev(s, i) / sum(s)
Dev(s, i) == Len(s) * s[i] - SumSeq(s)

\* sum of the e-th powers of the deviations Dev
DevPowSum(s, e) == SumSeq([i \in 1..Len(s) |-> Pow(Dev(s, i), e)])

\* np.mean(self.arr)
Mean(s) == FDiv(SumSeq(s), Len(s))

\* self.arr / self.expectation
ModulusRatio(s) == [i \in 1..Len(s) |-> FDiv(s[i] * Len(s), SumSeq(s))]

\* np.sqrt(np.sum((modulusRatio - 1)**2) / (n - 1)):
\* sum((k-1)^2) = M2 / S^2, so the radicand is M2 / (S^2 (n-1))
CoeffOfVar(s) ==
    LET M2 == DevPowSum(s, 2)
        S == SumSeq(s)
    IN  IF Len(s) - 1 = 0
        THEN (IF M2 = 0 THEN NaN ELSE Inf(1))
        ELSE Surd(1, M2, S * S * (Len(s) - 1))

\* np.sum((modulusRatio - 1)**3) / ((n - 3) * coeffOfVar**3):
\* with M2, M3 the power sums of Dev this is
\*   M3 (n-1)^(3/2) / ((n-3) M2^(3/2)),
\* and numpy divides by a zero divisor without raising
MomentSkew(s) ==
    LET M2 == DevPowSum(s, 2)
        M3 == DevPowSum(s, 3)
        m == Len(s)
        cv == CoeffOfVar(s)
    IN  IF cv.k = "nan" THEN NaN
        ELSE IF cv.k = "inf" THEN FDiv(0, m - 3)
        ELSE IF m - 3 = 0 \/ M2 = 0
             THEN (IF M3 = 0 THEN NaN ELSE Inf(Sign(M3)))
             ELSE Surd(M3 * (m - 3), M3 * M3 * Pow(m - 1, 3),
                       (m - 3) * (m - 3) * Pow(M2, 3))

\* scipy.stats.skew(self.arr, bias=False): the sample skewness g1, corrected
\* to G1 = sqrt(n(n-1))/(n-2) g1 when n > 2; a sample of zero variance gives
\* nan or 0 depending on the library version (lib)
LibSkew(s, lib) ==
    LET M2 == DevPowSum(s, 2)
        M3 == DevPowSum(s, 3)
        m == Len(s)
    IN  IF M2 = 0 THEN (IF lib = "nan" THEN NaN ELSE Fin(0, 1))
        ELSE IF m > 2
             THEN Surd(M3, M3 * M3 * m * m * (m - 1), (m - 2) * (m - 2) * Pow(M2, 3))
             ELSE Surd(M3, M3 * M3 * m, Pow(M2, 3))

\* the warning numpy emits while statParams divides
StatWarning(s, varSkew) ==
    IF Len(s) = 1 \/ (~varSkew /\ ~IsFinite(MomentSkew(s)))
    THEN "RuntimeWarning" ELSE "none"

\* ------------------------------------------------ empiScatter: the series
SeqRange(s) == {s[i] : i \in 1..Len(s)}

SetMin(T) == CHOOSE v \in T : \A w \in T : v <= w

SetMax(T) == CHOOSE v \in T : \A w \in T : w <= v

\* how often v occurs in s
Count(s, v) == Cardinality({j \in 1..Len(s) : s[j] = v})

\* the values of s from v to hi, each as often as it occurs, in ascending order
RECURSIVE SortFrom(_, _, _)
SortFrom(s, v, hi) ==
    IF v > hi THEN <<>>
    ELSE [i \in 1..Count(s, v) |-> v] \o SortFrom(s, v + 1, hi)

\* np.sort(self.arr): ascending
Sort(s) == SortFrom(s, SetMin(SeqRange(s)), SetMax(SeqRange(s)))

Reverse(s) == [i \in 1..Len(s) |-> s[Len(s) + 1 - i]]

\* a plausible slip: the [::-1] is left out
Descending_NoReverse(s) == Sort(s)

\* np.sort(self.arr)[::-1]
Descending(s) == Reverse(Sort(s))

\* (np.arange(self.n) + 1) / (self.n + 1) * 100
EmpiProb(m) == [r \in 1..m |-> FDiv(r * 100, m + 1)]

\* the largest j >= 0 with a * 10^j <= b, for 0 < a <= b
RECURSIVE NegExp(_, _)
NegExp(a, b) == IF a * 10 <= b THEN 1 + NegExp(a * 10, b) ELSE 0

\* the least j >= 0 with a <= b * 10^j, for a, b > 0
RECURSIVE PosExp(_, _)
PosExp(a, b) == IF a <= b THEN 0 ELSE 1 + PosExp(a, b * 10)

\* np.ceil(np.log10(p)) for a rational p > 0
CeilLog10(p) ==
    IF p.num <= p.den THEN 0 - NegExp(p.num, p.den) ELSE PosExp(p.num, p.den)

\* np.floor(np.log10(p)) for a rational p > 0
FloorLog10(p) ==
    LET c == CeilLog10(p)
    IN  IF (c >= 0 /\ p.num = p.den * Pow(10, c))
           \/ (c < 0 /\ p.num * Pow(10, 0 - c) = p.den)
        THEN c ELSE c - 1

\* 10**e
Pow10(e) == IF e >= 0 THEN Fin(Pow(10, e), 1) ELSE Fin(1, Pow(10, 0 - e))

\* a plausible slip: floor instead of ceil
ProbLimLeft_Floor(p0) ==
    IF FLess(Fin(1, 1), p0) THEN Fin(1, 1) ELSE Pow10(FloorLog10(p0) - 1)

\* lines 114-117: the left end of the probability axis
ProbLimLeft(p0) ==
    IF FLess(Fin(1, 1), p0) THEN Fin(1, 1) ELSE Pow10(CeilLog10(p0) - 1)

\* line 118
ProbLimRight(left) == FSub(Fin(100, 1), left)

\* ------------------------------------------ Pearson III evaluation (4.3)
\* scipy's pearson3.ppf(q, skew) with q = qnum / 100: nan outside [0, 1], the
\* ends of the support at 0 and 1, a finite quantile in between
Ppf(qnum, skew) ==
    IF qnum < 0 \/ qnum > 100 THEN NaN
    ELSE IF qnum = 0 THEN (IF skew.num > 0 THEN Real ELSE Inf(-1))
    ELSE IF qnum = 100 THEN (IF skew.num < 0 THEN Real ELSE Inf(1))
    ELSE Real

\* z * c for a result z of ppf and a rational c
Scale(z, c) ==
    IF c.num = 0 THEN (IF IsFinite(z) THEN Fin(0, 1) ELSE NaN)
    ELSE IF z.k = "inf" THEN Inf(z.num * Sign(c.num))
    ELSE IF z.k = "fin" THEN Fin(z.num * c.num, z.den * c.den)
    ELSE z

\* z + 1
PlusOne(z) == IF z.k = "fin" THEN Fin(z.num + z.den, z.den) ELSE z

\* (pearson3.ppf(1 - prob / 100, cs) * cv + 1) * ex
P3Value(prob, ex, cv, cs) == Scale(PlusOne(Scale(Ppf(100 - prob, cs), cv)), ex)

\* a / c as numpy divides, for a float a and a rational c
Over(a, c) ==
    IF a.k = "nan" THEN NaN
    ELSE IF c.num = 0
         THEN (IF a.k = "inf" THEN a
               ELSE IF a.num = 0 THEN NaN ELSE Inf(Sign(a.num)))
         ELSE IF a.k = "inf" THEN Inf(a.num * Sign(c.num))
         ELSE Fin(a.num * c.den, a.den * c.num)

\* z - 1
MinusOne(z) == IF z.k = "fin" THEN Fin(z.num - z.den, z.den) ELSE z

\* scipy's pearson3.cdf(z, skew): 0 and 1 at the infinities, nan for nan
Cdf(z, skew) ==
    IF z.k = "nan" THEN NaN
    ELSE IF z.k = "inf" THEN (IF z.num > 0 THEN Fin(1, 1) ELSE Fin(0, 1))
    ELSE Real

\* 100 - pearson3.cdf((value / ex - 1) / cv, cs) * 100
P3Prob(value, ex, cv, cs) ==
    LET c == Cdf(Over(MinusOne(Over(Fin(value, 1), ex)), cv), cs)
    IN  IF c.k = "fin" THEN FSub(Fin(100, 1), Fin(100 * c.num, c.den)) ELSE c

\* ------------------------------------------------- plotFitting: curve_fit
\* the number of free parameters of the model function p3, by configuration
NParams(svRatio, EXFitting) ==
    IF svRatio = 0 THEN (IF EXFitting THEN 3 ELSE 2)
    ELSE (IF EXFitting THEN 2 ELSE 1)

\* how scipy's curve_fit (method lm) can end: it returns the optimum; it
\* returns an optimum whose covariance cannot be estimated (singular
\* Jacobian) with an OptimizeWarning; or it raises RuntimeError when the
\* iteration budget maxfev is exceeded
CurveFitOutcomes == {"converged", "singular", "maxfev"}

\* the parameter values curve_fit can return
FitVals == {Fin(0, 1), Fin(1, 1)}

\* a plausible slip: fitEX is not assigned when EX is held fixed
FixedEX_Stale(old) == old

\* lines 178 and 196: self.fitEX = self.expectation
FixedEX(old) == expectation

\* a plausible slip: fitCS is not assigned in the fixed-ratio branch
FixedRatioCS_Stale(cv, svRatio, old) == old

\* line 198: self.fitCS = self.fitCV * svRatio
FixedRatioCS(cv, svRatio, old) == FMulInt(cv, svRatio)

\* the attributes plotFitting reads before the optimizer runs
FitInputsPresent(svRatio) ==
    /\ empiProb # <<>>
    /\ sorted # <<>>
    /\ Has(expectation)
    /\ Has(coeffOfVar)
    /\ (svRatio = 0 => Has(coeffOfSkew))

\* a plausible slip: the fitted EX is written back over the moment estimate
plotFittingFrame_Clobber ==
    /\ expectation' = fitEX'
    /\ UNCHANGED <<arr, n, ax, modulusRatio, coeffOfVar, coeffOfSkew,
                   sorted, empiProb, probLimLeft, probLimRight, empiDone>>

\* plotFitting assigns no attribute but fitEX, fitCV and fitCS
plotFittingFrame ==
    UNCHANGED <<arr, n, ax, expectation, modulusRatio, coeffOfVar, coeffOfSkew,
                sorted, empiProb, probLimLeft, probLimRight, empiDone>>

\* ---------------------------------------------------------------- state
\* the samples a Data object is constructed with
Samples == UNION {[1..m -> {1, 2}] : m \in 1..MaxN}

SeriesSamples ==
    UNION {[1..m -> 1..MaxSeriesVal] : m \in 1..MaxSeriesN}
    \cup {[i \in 1..m |-> 1] : m \in 1..MaxAxisN}

\* the arguments the callers pass
SvRatios == {0, 2}

ProbArgs == {-50, 0, 10, 50, 100, 150}

ValueArgs == {0, 1, 2}

NoAxes == [exists |-> FALSE, xlim |-> <<>>]

\* __init__ has assigned arr and n; no other attribute exists
Fresh(sample) ==
    /\ arr = sample
    /\ n = Len(sample)
    /\ ax = NoAxes
    /\ expectation = Absent
    /\ modulusRatio = <<>>
    /\ coeffOfVar = Absent
    /\ coeffOfSkew = Absent
    /\ sorted = <<>>
    /\ empiProb = <<>>
    /\ probLimLeft = Absent
    /\ probLimRight = Absent
    /\ fitEX = Absent
    /\ fitCV = Absent
    /\ fitCS = Absent
    /\ lastOp = "__init__"
    /\ lastResult = "returned"
    /\ warned = "none"
    /\ ret = Absent
    /\ empiDone = FALSE

Init == \E sample \in Samples : Fresh(sample)

\* the outcome of a call that changes nothing but the call record
Outcome(op, result) ==
    /\ lastOp' = op
    /\ lastResult' = result
    /\ warned' = "none"
    /\ ret' = Absent

\* -------------------------------------------------------------- methods
\* grid and logVert style the axes only
figure(grid, logVert) ==
    /\ ax' = [exists |-> TRUE, xlim |-> <<>>]
    /\ Outcome("figure", "returned")
    /\ UNCHANGED <<arr, n, expectation, modulusRatio, coeffOfVar, coeffOfSkew,
                   sorted, empiProb, probLimLeft, probLimRight,
                   fitEX, fitCV, fitCS, empiDone>>

\* output only prints the three statistics
statParams(varSkew, output) ==
    /\ expectation' = Mean(arr)
    /\ modulusRatio' = ModulusRatio(arr)
    /\ coeffOfVar' = CoeffOfVar(arr)
    /\ coeffOfSkew' \in IF ~varSkew THEN {MomentSkew(arr)}
                        ELSE {LibSkew(arr, lib) : lib \in {"nan", "zero"}}
    /\ lastOp' = "statParams"
    /\ lastResult' = "returned"
    /\ warned' = StatWarning(arr, varSkew)
    /\ ret' = Absent
    /\ UNCHANGED <<arr, n, ax, sorted, empiProb, probLimLeft, probLimRight,
                   fitEX, fitCV, fitCS, empiDone>>

\* the four attributes are assigned before self.ax is read
empiScatter ==
    /\ sorted' = Descending(arr)
    /\ empiProb' = EmpiProb(n)
    /\ probLimLeft' = ProbLimLeft(empiProb'[1])
    /\ probLimRight' = ProbLimRight(probLimLeft')
    /\ IF ax.exists
       THEN /\ ax' = [ax EXCEPT !.xlim = <<probLimLeft', probLimRight'>>]
            /\ empiDone' = TRUE
            /\ Outcome("empiScatter", "returned")
       ELSE /\ UNCHANGED <<ax, empiDone>>
            /\ Outcome("empiScatter", "AttributeError")
    /\ UNCHANGED <<arr, n, expectation, modulusRatio, coeffOfVar, coeffOfSkew,
                   fitEX, fitCV, fitCS>>

momentPlot ==
    /\ IF Has(probLimLeft) /\ Has(probLimRight) /\ Has(coeffOfSkew)
          /\ Has(coeffOfVar) /\ Has(expectation) /\ ax.exists
       THEN Outcome("momentPlot", "returned")
       ELSE Outcome("momentPlot", "AttributeError")
    /\ UNCHANGED <<arr, n, ax, expectation, modulusRatio, coeffOfVar, coeffOfSkew,
                   sorted, empiProb, probLimLeft, probLimRight,
                   fitEX, fitCV, fitCS, empiDone>>

\* output only prints the fitted triple
plotFitting(svRatio, EXFitting, output) ==
    /\ lastOp' = "plotFitting"
    /\ ret' = Absent
    /\ IF ~FitInputsPresent(svRatio)
       THEN /\ lastResult' = "AttributeError"
            /\ warned' = "none"
            /\ UNCHANGED <<fitEX, fitCV, fitCS>>
       ELSE IF n < NParams(svRatio, EXFitting)
       THEN /\ lastResult' = "TypeError"
            /\ warned' = "none"
            /\ UNCHANGED <<fitEX, fitCV, fitCS>>
       ELSE \E outcome \in CurveFitOutcomes :
            IF outcome = "maxfev"
            THEN /\ lastResult' = "RuntimeError"
                 /\ warned' = "none"
                 /\ UNCHANGED <<fitEX, fitCV, fitCS>>
            ELSE \E popt \in [1..NParams(svRatio, EXFitting) -> FitVals] :
                 /\ lastResult' = "returned"
                 /\ warned' = IF outcome = "singular" THEN "OptimizeWarning"
                              ELSE "none"
                 /\ fitEX' = IF EXFitting THEN popt[1] ELSE FixedEX(fitEX)
                 /\ fitCV' = IF EXFitting THEN popt[2] ELSE popt[1]
                 /\ fitCS' = IF svRatio = 0 THEN popt[NParams(svRatio, EXFitting)]
                             ELSE FixedRatioCS(fitCV', svRatio, fitCS)
    /\ plotFittingFrame

fittedPlot ==
    /\ IF Has(probLimLeft) /\ Has(probLimRight) /\ Has(fitCS)
          /\ Has(fitCV) /\ Has(fitEX) /\ ax.exists
       THEN Outcome("fittedPlot", "returned")
       ELSE Outcome("fittedPlot", "AttributeError")
    /\ UNCHANGED <<arr, n, ax, expectation, modulusRatio, coeffOfVar, coeffOfSkew,
                   sorted, empiProb, probLimLeft, probLimRight,
                   fitEX, fitCV, fitCS, empiDone>>

prob2Value(prob) ==
    /\ lastOp' = "prob2Value"
    /\ warned' = "none"
    /\ IF Has(fitCS) /\ Has(fitCV) /\ Has(fitEX)
       THEN /\ lastResult' = "returned"
            /\ ret' = P3Value(prob, fitEX, fitCV, fitCS)
       ELSE /\ lastResult' = "AttributeError"
            /\ ret' = Absent
    /\ UNCHANGED <<arr, n, ax, expectation, modulusRatio, coeffOfVar, coeffOfSkew,
                   sorted, empiProb, probLimLeft, probLimRight,
                   fitEX, fitCV, fitCS, empiDone>>

value2Prob(value) ==
    /\ lastOp' = "value2Prob"
    /\ IF Has(fitEX) /\ Has(fitCV) /\ Has(fitCS)
       THEN /\ lastResult' = "returned"
            /\ ret' = P3Prob(value, fitEX, fitCV, fitCS)
            /\ warned' = IF fitEX.num = 0 \/ fitCV.num = 0
                         THEN "RuntimeWarning" ELSE "none"
       ELSE /\ lastResult' = "AttributeError"
            /\ ret' = Absent
            /\ warned' = "none"
    /\ UNCHANGED <<arr, n, ax, expectation, modulusRatio, coeffOfVar, coeffOfSkew,
                   sorted, empiProb, probLimLeft, probLimRight,
                   fitEX, fitCV, fitCS, empiDone>>

Next ==
    \/ \E grid \in BOOLEAN, logVert \in BOOLEAN : figure(grid, logVert)
    \/ \E varSkew \in BOOLEAN, output \in BOOLEAN : statParams(varSkew, output)
    \/ empiScatter
    \/ momentPlot
    \/ \E svRatio \in SvRatios, EXFitting \in BOOLEAN :
          plotFitting(svRatio, EXFitting, TRUE)
    \/ fittedPlot
    \/ \E prob \in ProbArgs : prob2Value(prob)
    \/ \E value \in ValueArgs : value2Prob(value)

Spec == Init /\ [][Next]_vars

\* the empirical series alone, on more and on longer samples
InitSeries == \E sample \in SeriesSamples : Fresh(sample)

NextSeries ==
    \/ \E grid \in BOOLEAN, logVert \in BOOLEAN : figure(grid, logVert)
    \/ empiScatter

SpecSeries == InitSeries /\ [][NextSeries]_vars

\* ---------------------------------------------------------------- claims
\* the three fitted parameters exist: some plotFitting has returned
Fitted == Has(fitEX) /\ Has(fitCV) /\ Has(fitCS)

\* C1: an operation invoked before the stage it needs fails with a
\* PreconditionError: prob2Value and value2Prob when no plotFitting has
\* returned before, plotFitting when empiScatter or statParams has not
\* returned before.
C1_OutOfOrderIsPreconditionError ==
    [][/\ (lastOp' \in {"prob2Value", "value2Prob"} /\ ~Fitted)
            => lastResult' = "PreconditionError"
       /\ (lastOp' = "plotFitting" /\ ~(empiDone /\ Has(expectation)))
            => lastResult' = "PreconditionError"]_vars

\* C1, read with any exception in place of PreconditionError: a plotFitting
\* invoked before empiScatter has returned does not return
C1_OutOfOrderFails ==
    [][(lastOp' = "plotFitting" /\ ~(empiDone /\ Has(expectation)))
            => lastResult' # "returned"]_vars

\* C2: after every plotFitting that returns with svRatio # 0, for either
\* value of EXFitting and whatever fitCS held before,
\* fitCS = fitCV * svRatio.
C2_FixedRatio ==
    [][\A svRatio \in SvRatios \ {0}, EXFitting \in BOOLEAN :
          (plotFitting(svRatio, EXFitting, TRUE) /\ lastResult' = "returned")
            => fitCS' = FMulInt(fitCV', svRatio)]_vars

\* a plotFitting with svRatio = 2 has returned and stored fitCV = 1, fitCS = 2
C2_Witness ==
    /\ lastOp = "plotFitting"
    /\ lastResult = "returned"
    /\ fitCV = Fin(1, 1)
    /\ fitCS = Fin(2, 1)

\* C3: after every plotFitting that returns with EXFitting = False, for
\* either kind of svRatio and whatever fitEX held before, fitEX is the mean
\* of the sample.
C3_FixedEX ==
    [][\A svRatio \in SvRatios :
          (plotFitting(svRatio, FALSE, TRUE) /\ lastResult' = "returned")
            => (fitEX' = Mean(arr) /\ fitEX' = expectation)]_vars

\* a plotFitting has returned and fitEX is the mean 3/2, which the optimizer
\* does not return
C3_Witness ==
    /\ lastOp = "plotFitting"
    /\ lastResult = "returned"
    /\ arr = <<1, 2>>
    /\ fitEX = Fin(3, 2)
    /\ fitEX \notin FitVals

\* x = a / b for a rational x
FEq(x, a, b) == x.k = "fin" /\ x.num * b = a * x.den

\* C4: empiScatter stores a series whose values are a permutation of the
\* sample in non-increasing order, whose probability at rank r is
\* r / (n + 1) * 100, strictly increasing in r and strictly between 0 and 100.
C4_EmpiricalSeries ==
    /\ lastOp = "empiScatter" => sorted # <<>>
    /\ sorted # <<>> =>
        /\ Len(sorted) = n
        /\ Len(empiProb) = n
        /\ \A v \in SeqRange(arr) \cup SeqRange(sorted) :
              Count(sorted, v) = Count(arr, v)
        /\ \A i \in 1..(n - 1) : sorted[i] >= sorted[i + 1]
        /\ \A r \in 1..n : FEq(empiProb[r], r * 100, n + 1)
        /\ \A r \in 1..(n - 1) : FLess(empiProb[r], empiProb[r + 1])
        /\ \A r \in 1..n : /\ FLess(Fin(0, 1), empiProb[r])
                           /\ FLess(empiProb[r], Fin(100, 1))

\* empiScatter has sorted the sample 1, 3, 2 into 3, 2, 1
C4_Witness ==
    /\ lastOp = "empiScatter"
    /\ arr = <<1, 3, 2>>
    /\ sorted = <<3, 2, 1>>
    /\ empiProb[1] = Fin(25, 1)

\* C5: statParams with varSkew = False on a sample of at most three values
\* raises InsufficientSampleError and stores no coefficient of skew.
C5_SmallSampleRaises ==
    [][\A output \in BOOLEAN :
          (statParams(FALSE, output) /\ n <= 3)
            => (lastResult' = "InsufficientSampleError" /\ ~Has(coeffOfSkew'))]_vars

\* C6: with a fitted triple present, prob2Value returns a value only for
\* 0 < prob < 100; for prob <= 0 and prob >= 100 it ends in a DomainError.
C6_ProbOutsideRaises ==
    [][\A prob \in ProbArgs :
          (prob2Value(prob) /\ Fitted /\ (prob <= 0 \/ prob >= 100))
            => (lastResult' = "DomainError" /\ ret' = Absent)]_vars

\* C7: when the optimizer does not converge (singular Jacobian, iteration
\* budget exceeded), plotFitting propagates the failure and leaves fitEX,
\* fitCV and fitCS as they were.
C7_NoConvergencePropagates ==
    [][(lastOp' = "plotFitting"
          /\ (warned' = "OptimizeWarning" \/ lastResult' = "RuntimeError"))
            => (lastResult' # "returned" /\ UNCHANGED <<fitEX, fitCV, fitCS>>)]_vars

\* C9 as claimed: the left bound is 1 when the smallest probability exceeds
\* 1, else the largest power of ten not above it, divided by ten; the right
\* bound is 100 - left; the left bound is below a smallest probability <= 1.
C9_LeftIsFloorDecade ==
    Has(probLimLeft) =>
        LET p0 == empiProb[1]
        IN  /\ probLimLeft = IF FLess(Fin(1, 1), p0) THEN Fin(1, 1)
                             ELSE Pow10(FloorLog10(p0) - 1)
            /\ probLimRight = FSub(Fin(100, 1), probLimLeft)
            /\ ~FLess(Fin(1, 1), p0) => FLess(probLimLeft, p0)

\* C9 amended: the left bound is 1 when the smallest probability exceeds 1,
\* else the largest power of ten strictly below it; the right bound is
\* 100 - left; the left bound is below a smallest probability <= 1.
C9_LeftIsDecadeBelow ==
    Has(probLimLeft) =>
        LET p0 == empiProb[1]
        IN  /\ FLess(Fin(1, 1), p0) => probLimLeft = Fin(1, 1)
            /\ ~FLess(Fin(1, 1), p0) =>
                  /\ \E j \in 1..6 : probLimLeft = Fin(1, Pow(10, j))
                  /\ FLess(probLimLeft, p0)
                  /\ ~FLess(Fin(10 * probLimLeft.num, probLimLeft.den), p0)
            /\ probLimRight = FSub(Fin(100, 1), probLimLeft)

\* empiScatter on 199 values: the smallest probability is 1/2, the bounds
\* are 1/10 and 999/10
C9_Witness ==
    /\ lastOp = "empiScatter"
    /\ n = 199
    /\ empiProb[1] = Fin(1, 2)
    /\ probLimLeft = Fin(1, 10)
    /\ probLimRight = Fin(999, 10)

\* C10: plotFitting, returning or raising, changes nothing but fitEX, fitCV
\* and fitCS: the sample, the moment triple, the empirical series and the
\* axis bounds, hence the inputs of the moment curve, stay as they were.
C10_FitLeavesMoments ==
    [][lastOp' = "plotFitting" =>
          UNCHANGED <<arr, n, expectation, modulusRatio, coeffOfVar, coeffOfSkew,
                      sorted, empiProb, probLimLeft, probLimRight>>]_vars

\* a plotFitting has returned a fitted EX that differs from the moment
\* estimate, which is still the mean of the sample
C10_Witness ==
    /\ lastOp = "plotFitting"
    /\ lastResult = "returned"
    /\ fitEX # expectation
    /\ expectation = Mean(arr)
    /\ Has(coeffOfSkew)
    /\ Has(probLimLeft)

=============================================================================
